---- MODULE Spec2Model ----
(***************************************************************************)
(* Model of the local-disk blob receiver: diskStorage.ReceiveBlob          *)
(* (src/unnamed/part_000).  Several ReceiveBlob calls run concurrently     *)
(* against one storage root; every filesystem call of a ReceiveBlob is one *)
(* atomic step, and the steps of different calls interleave freely.        *)
(*                                                                         *)
(* Filesystem calls (os.MkdirAll, ioutil.TempFile, Write, Sync, Close,     *)
(* os.Rename, os.Lstat, os.Link) may each fail because of the environment; *)
(* such a failure is a nondeterministic branch that raises fault[c].       *)
(* os.Remove of an existing file in the deferred cleanup is taken to       *)
(* succeed (its error is ignored by the code).                             *)
(***************************************************************************)
EXTENDS Integers, Sequences, FiniteSets, TLC

\* ------------------------------------------------------------- bounds
\* Number of ReceiveBlob calls (each may overlap the others or follow them).
NumCalls == 2
\* Longest byte stream a caller sends.
MaxLen == 1
\* Longest mirror partition list a caller passes.
MaxParts == 2
\* Number of distinct random suffixes ioutil.TempFile can draw.
NumTempNames == 2

Calls == 1..NumCalls
\* The byte values streams are made of (a stream is told apart by its length).
Bytes == {0}
Partitions == {"p1", "p2"}
TempNames == 1..NumTempNames
\* Events a hub buffers for a subscriber that has not taken them yet.
QueueCap == 1
\* The observers that may subscribe to a hub.
Subscribers == {"s1", "s2"}
\* Number of batches begun on the index backend.
NumBatches == 2
\* Most staging calls made on one batch.
MaxOps == 3

Batches == 1..NumBatches
\* The keys and values of the index backend.
Keys == {"k1", "k2"}
Values == {"v1", "v2"}
\* What the backend answers for a key it does not hold.
Absent == "absent"
\* The backend before any batch is begun.
InitialStore == [k \in Keys |-> IF k = "k1" THEN "v1" ELSE Absent]

\* blobserver.DefaultPartition
DefaultPartition == "default"

\* The partitions that have a hub: ds.GetBlobHub(partition)
\* The config keys listenAndBaseURL reads.
ConfigKeys == {"listen", "baseURL"}

\* Values of the -listen flag on the command line ("" when it is not given).
ListenFlags == {"", ":0", ":3179", "localhost:3179"}

\* Values of the config's "listen" and "baseURL" keys.
ListenConfigs == {Absent, "", ":0", ":3179", "localhost:3179"}
BaseURLConfigs == {Absent, "", "http://localhost:3179"}

Hubs == {DefaultPartition} \cup Partitions

RECURSIVE SeqsUpTo(_, _)
SeqsUpTo(S, n) ==
    IF n = 0 THEN {<<>>}
    ELSE LET shorter == SeqsUpTo(S, n - 1)
         IN  shorter \cup {Append(s, x) : s \in shorter, x \in S}

\* The byte streams and partition lists callers may pass.
Contents == SeqsUpTo(Bytes, MaxLen)
PartLists == SeqsUpTo(Partitions, MaxParts)

\* ------------------------------------------------------ content address
\* blobRef.Hash(): a fresh accumulator of the blobref's hash function.
NewHash == 1

\* hash.Write(b): the accumulator after one more byte.  The digest is
\* collision-free on the bounded streams, as SHA-1 is taken to be.
HashWrite(h, b) == 2 * h + b

RECURSIVE HashOf(_)
HashOf(s) ==
    IF s = <<>> THEN NewHash
    ELSE HashWrite(HashOf(SubSeq(s, 1, Len(s) - 1)), s[Len(s)])

\* blobRef.HashMatches(hash): the accumulated digest equals the claimed one.
HashMatches(ref, h) == ref = h

\* The addresses a caller may claim: the digests of the streams.
BlobRefs == {HashOf(s) : s \in Contents}

\* ------------------------------------------------------------ disk layout
\* ds.blobDirectoryName(blobRef)
BlobDirectoryName(ref) == <<"dir", ref>>

\* ds.blobFileName(blobRef): the canonical path
BlobFileName(ref) == <<"blob", ref>>

\* ds.blobPartitionDirectoryName(partition, blobRef)
BlobPartitionDirectoryName(p, ref) == <<"pdir", p, ref>>

\* ds.partitionBlobFileName(partition, blobRef)
PartitionBlobFileName(p, ref) == <<"part", p, ref>>

\* A faulty variant of TempFileName: the stream is written in place, under the
\* canonical name.
TempFileName_InPlace(ref, n) == BlobFileName(ref)

\* hashedDirectory/BlobFileBaseName(blobRef)+".tmp"+suffix
TempFileName(ref, n) == <<"tmp", ref, n>>

\* ------------------------------------------------------------------ state
VARIABLES
    files,             \* existing path -> [ino, data, regular]: the entries
    dirs,              \* the directories that exist
    pc,                \* each call's position in ReceiveBlob
    blobRef,           \* argument: the claimed address
    source,            \* argument: what is left of the byte stream
    sent,              \* the whole stream the caller passed (never changes)
    mirrorPartitions,  \* argument: the mirror partition list
    precededBy,        \* the calls that had returned when this call was made
    tempName,          \* tempFile.Name()'s suffix, 0 before TempFile
    hash,              \* the running hash accumulator
    written,           \* bytes io.Copy has written
    stat,              \* the Lstat result
    partIdx,           \* position of the mirror loop
    err,               \* named result err
    blobGot,           \* named result blobGot: <<>> is nil
    success,           \* the flag the deferred cleanup reads
    ops,               \* the calls each ReceiveBlob has issued, in order
    fault,             \* the environment failed one of the call's steps
    hubOf,             \* subscriber -> "new", the hub it is registered on, "off"
    inbox,             \* subscriber -> the events buffered for it, in order
    m,                 \* batch -> b.m, its list of mutations
    handle,            \* batch -> "none", "open" (from BeginBatch), "spent"
    store,             \* the index backend: key -> value, or Absent
    staged,            \* batch -> the staging calls made on it, in order
    pcMain,            \* the server's position in main
    listenFlag,        \* *listenFlag, the value of the -listen flag
    config,            \* the loaded config: key -> string, or Absent
    listen,            \* named result listen of listenAndBaseURL
    baseURL,           \* named result baseURL of listenAndBaseURL
    stderr,            \* what exitf has written before os.Exit(1)
    bound              \* the address ws.Listen was called with

vars == <<files, dirs, pc, blobRef, source, sent, mirrorPartitions, precededBy,
          tempName, hash, written, stat, partIdx, err, blobGot, success, ops,
          fault, hubOf, inbox, m, handle, store, staged, pcMain, listenFlag,
          config, listen, baseURL, stderr, bound>>

\* The notification hubs' state.
hubs == <<hubOf, inbox>>

\* The index's state: the batches and the backend.
index == <<m, handle, store, staged>>

\* The server's start-up state.
boot == <<pcMain, listenFlag, config, listen, baseURL, stderr, bound>>

\* What is fixed when the call is made.
args == <<blobRef, sent, mirrorPartitions, precededBy>>

NoErr == "nil"
CorruptBlobError == "corrupt blob; digest doesn't match"
SizeError == "Written size didn't match."
NoStat == [ino |-> 0, size |-> 0, regular |-> FALSE]

Exists(path) == path \in DOMAIN files

\* The file system after creating or replacing the entry at path.
WithFile(fs, path, f) == [q \in DOMAIN fs \cup {path} |-> IF q = path THEN f ELSE fs[q]]

\* The file system after unlinking path (nothing happens if it is absent).
WithoutFile(fs, path) == [q \in DOMAIN fs \ {path} |-> fs[q]]

Log(c, op, arg, ok) == ops' = [ops EXCEPT ![c] = Append(@, <<op, arg, ok>>)]

Init ==
    /\ files = <<>>
    /\ dirs = {}
    /\ pc = [c \in Calls |-> "idle"]
    /\ blobRef = [c \in Calls |-> NewHash]
    /\ source = [c \in Calls |-> <<>>]
    /\ sent = [c \in Calls |-> <<>>]
    /\ mirrorPartitions = [c \in Calls |-> <<>>]
    /\ precededBy = [c \in Calls |-> {}]
    /\ tempName = [c \in Calls |-> 0]
    /\ hash = [c \in Calls |-> NewHash]
    /\ written = [c \in Calls |-> 0]
    /\ stat = [c \in Calls |-> NoStat]
    /\ partIdx = [c \in Calls |-> 1]
    /\ err = [c \in Calls |-> NoErr]
    /\ blobGot = [c \in Calls |-> <<>>]
    /\ success = [c \in Calls |-> FALSE]
    /\ ops = [c \in Calls |-> <<>>]
    /\ fault = [c \in Calls |-> FALSE]
    /\ hubOf = [s \in Subscribers |-> "new"]
    /\ inbox = [s \in Subscribers |-> <<>>]
    /\ m = [b \in Batches |-> <<>>]
    /\ handle = [b \in Batches |-> "none"]
    /\ store = InitialStore
    /\ staged = [b \in Batches |-> <<>>]
    /\ pcMain = "start"
    /\ listenFlag = ""
    /\ config = [k \in ConfigKeys |-> Absent]
    /\ listen = ""
    /\ baseURL = ""
    /\ stderr = ""
    /\ bound = ""

\* A caller invokes ReceiveBlob(ref, s, parts).  Calls are numbered in the
\* order they start.
Call(c) ==
    /\ pc[c] = "idle"
    /\ \A d \in Calls : d < c => pc[d] # "idle"
    /\ \E ref \in BlobRefs, s \in Contents, parts \in PartLists :
          /\ blobRef' = [blobRef EXCEPT ![c] = ref]
          /\ source' = [source EXCEPT ![c] = s]
          /\ sent' = [sent EXCEPT ![c] = s]
          /\ mirrorPartitions' = [mirrorPartitions EXCEPT ![c] = parts]
    /\ precededBy' = [precededBy EXCEPT ![c] = {d \in Calls : pc[d] = "done"}]
    /\ pc' = [pc EXCEPT ![c] = "mkdir"]
    /\ UNCHANGED <<boot, index, hubs, files, dirs, tempName, hash, written, stat, partIdx, err,
                   blobGot, success, ops, fault>>

\* A faulty variant of Fail: the error is dropped and the step tried again.
Fail_Retries(c, e, injected) ==
    /\ fault' = [fault EXCEPT ![c] = @ \/ injected]
    /\ UNCHANGED <<err, pc>>

\* A step fails with error e: the function returns through the deferred
\* cleanup.
Fail(c, e, injected) ==
    /\ err' = [err EXCEPT ![c] = e]
    /\ fault' = [fault EXCEPT ![c] = @ \/ injected]
    /\ pc' = [pc EXCEPT ![c] = "deferred"]

\* os.MkdirAll(hashedDirectory, 0700); a failure returns before the defer.
MkdirAll(c) ==
    /\ pc[c] = "mkdir"
    /\ \/ /\ dirs' = dirs \cup {BlobDirectoryName(blobRef[c])}
          /\ Log(c, "MkdirAll", "", TRUE)
          /\ pc' = [pc EXCEPT ![c] = "tempfile"]
          /\ UNCHANGED <<err, fault>>
       \/ /\ Log(c, "MkdirAll", "", FALSE)
          /\ err' = [err EXCEPT ![c] = "MkdirAll"]
          /\ fault' = [fault EXCEPT ![c] = TRUE]
          /\ pc' = [pc EXCEPT ![c] = "done"]
          /\ UNCHANGED dirs
    /\ UNCHANGED <<boot, index, hubs, files, args, source, tempName, hash, written, stat,
                   partIdx, blobGot, success>>

\* A faulty variant of NameFree: any name no file has at the moment, also one
\* that a running call drew and has renamed away.
NameFree_OnDisk(ref, n) == ~(TempFileName(ref, n) \in DOMAIN files)

\* A faulty variant of NameFree: a fixed temporary name, created without O_EXCL.
NameFree_Fixed(ref, n) == n = 1

\* A suffix ioutil.TempFile may hand out: no file of that name exists
\* (O_EXCL), and no call still running holds it ("multiple programs calling
\* TempFile simultaneously will not choose the same file").
NameFree(ref, n) ==
    /\ ~Exists(TempFileName(ref, n))
    /\ \A d \in Calls :
          pc[d] \in {"idle", "done"} \/ blobRef[d] # ref \/ tempName[d] # n

\* ioutil.TempFile(hashedDirectory, base+".tmp"); a failure returns before
\* the defer.
TempFile(c) ==
    /\ pc[c] = "tempfile"
    /\ \/ \E n \in TempNames :
             /\ NameFree(blobRef[c], n)
             /\ files' = WithFile(files, TempFileName(blobRef[c], n),
                                  [ino |-> c, data |-> <<>>, regular |-> TRUE])
             /\ tempName' = [tempName EXCEPT ![c] = n]
             /\ Log(c, "TempFile", "", TRUE)
             /\ pc' = [pc EXCEPT ![c] = "copy"]
             /\ UNCHANGED <<err, fault>>
       \/ /\ Log(c, "TempFile", "", FALSE)
          /\ err' = [err EXCEPT ![c] = "TempFile"]
          /\ fault' = [fault EXCEPT ![c] = TRUE]
          /\ pc' = [pc EXCEPT ![c] = "done"]
          /\ UNCHANGED <<files, tempName>>
    /\ UNCHANGED <<boot, index, hubs, dirs, args, source, hash, written, stat, partIdx, blobGot,
                   success>>

\* The call's temporary path.
TempPath(c) == TempFileName(blobRef[c], tempName[c])

\* A faulty variant of WriteThrough: the stream reaches the hash but not the file.
WriteThrough_HashOnly(fs, c, b) == fs

\* The file system after the call's open descriptor is written to: the
\* bytes land in the inode the call created, wherever it is linked.
WriteThrough(fs, c, b) ==
    [q \in DOMAIN fs |->
        IF q = TempPath(c) /\ fs[q].ino = c
        THEN [fs[q] EXCEPT !.data = Append(@, b)]
        ELSE fs[q]]

\* One round of io.Copy(io.MultiWriter(hash, tempFile), source): read the
\* next byte and write it to the hash, then to the file; or reach EOF; or
\* the read fails (the caller aborts mid-stream).
Copy(c) ==
    /\ pc[c] = "copy"
    /\ \/ /\ source[c] # <<>>
          /\ source' = [source EXCEPT ![c] = Tail(@)]
          /\ hash' = [hash EXCEPT ![c] = HashWrite(@, Head(source[c]))]
          /\ \/ /\ files' = WriteThrough(files, c, Head(source[c]))
                /\ written' = [written EXCEPT ![c] = @ + 1]
                /\ Log(c, "Write", "", TRUE)
                /\ UNCHANGED <<pc, err, fault>>
             \/ /\ Log(c, "Write", "", FALSE)
                /\ Fail(c, "Write", TRUE)
                /\ UNCHANGED <<files, written>>
       \/ /\ source[c] = <<>>
          /\ Log(c, "EOF", "", TRUE)
          /\ pc' = [pc EXCEPT ![c] = "sync"]
          /\ UNCHANGED <<files, source, hash, written, err, fault>>
       \/ /\ Log(c, "Read", "", FALSE)
          /\ Fail(c, "Read", TRUE)
          /\ UNCHANGED <<files, source, hash, written>>
    /\ UNCHANGED <<boot, index, hubs, dirs, args, tempName, stat, partIdx, blobGot, success>>

\* A faulty variant of Sync: the file is closed without being synced.
Sync_Skipped(c) ==
    /\ pc[c] = "sync"
    /\ pc' = [pc EXCEPT ![c] = "close"]
    /\ UNCHANGED <<boot, index, hubs, files, dirs, args, source, tempName, hash, written,
                   stat, partIdx, err, blobGot, success, ops, fault>>

\* tempFile.Sync()
Sync(c) ==
    /\ pc[c] = "sync"
    /\ \/ /\ Log(c, "Sync", "", TRUE)
          /\ pc' = [pc EXCEPT ![c] = "close"]
          /\ UNCHANGED <<err, fault>>
       \/ /\ Log(c, "Sync", "", FALSE)
          /\ Fail(c, "Sync", TRUE)
    /\ UNCHANGED <<boot, index, hubs, files, dirs, args, source, tempName, hash, written, stat,
                   partIdx, blobGot, success>>

\* A faulty variant of DigestVerified: the digest is never compared.
DigestVerified_Skipped(c) == TRUE

\* The condition of line 68: the streamed bytes hash to the claimed address.
DigestVerified(c) == HashMatches(blobRef[c], hash[c])

\* tempFile.Close(), then the digest check of lines 68-71.
Close(c) ==
    /\ pc[c] = "close"
    /\ \/ /\ Log(c, "Close", "", TRUE)
          /\ IF DigestVerified(c)
             THEN /\ pc' = [pc EXCEPT ![c] = "rename"]
                  /\ UNCHANGED <<err, fault>>
             ELSE Fail(c, CorruptBlobError, FALSE)
       \/ /\ Log(c, "Close", "", FALSE)
          /\ Fail(c, "Close", TRUE)
    /\ UNCHANGED <<boot, index, hubs, files, dirs, args, source, tempName, hash, written, stat,
                   partIdx, blobGot, success>>

\* A faulty variant of RenameSucceeds: the rename refuses to replace an existing
\* canonical file.
RenameSucceeds_NoReplace(c) ==
    Exists(TempPath(c)) /\ ~Exists(BlobFileName(blobRef[c]))

\* os.Rename succeeds if the old name exists; a file already at the new name
\* is replaced.
RenameSucceeds(c) == Exists(TempPath(c))

\* os.Rename(tempFile.Name(), fileName): atomically replaces the canonical
\* entry by whatever the temporary name holds.
Rename(c) ==
    /\ pc[c] = "rename"
    /\ \/ IF RenameSucceeds(c)
          THEN /\ files' = WithFile(WithoutFile(files, TempPath(c)),
                                    BlobFileName(blobRef[c]), files[TempPath(c)])
               /\ Log(c, "Rename", "", TRUE)
               /\ pc' = [pc EXCEPT ![c] = "lstat"]
               /\ UNCHANGED <<err, fault>>
          ELSE /\ Log(c, "Rename", "", FALSE)
               /\ Fail(c, "Rename", FALSE)
               /\ UNCHANGED files
       \/ /\ Log(c, "Rename", "", FALSE)
          /\ Fail(c, "Rename", TRUE)
          /\ UNCHANGED files
    /\ UNCHANGED <<boot, index, hubs, dirs, args, source, tempName, hash, written, stat, partIdx,
                   blobGot, success>>

\* os.Lstat of a path that holds file f.
StatOf(f) == [ino |-> f.ino, size |-> Len(f.data), regular |-> f.regular]

\* A faulty variant of StatMismatch: the size is not compared.
StatMismatch_TypeOnly(c, st) == ~st.regular

\* The condition of line 82: what Lstat found is not the file just written.
StatMismatch(c, st) == ~st.regular \/ st.size # written[c]

\* A faulty variant of AfterMirror: the result is set without mirroring.
AfterMirror_SkipsMirrors(c, i) == "notify"

\* Where the function goes once the commit is verified: the mirror loop, or
\* past it when there is nothing (left) to mirror.
AfterMirror(c, i) ==
    IF i <= Len(mirrorPartitions[c]) THEN "mirrormkdir" ELSE "notify"

\* os.Lstat(fileName), then the type and size check of lines 82-85.
Lstat(c) ==
    /\ pc[c] = "lstat"
    /\ \/ IF Exists(BlobFileName(blobRef[c]))
          THEN LET st == StatOf(files[BlobFileName(blobRef[c])])
               IN  /\ stat' = [stat EXCEPT ![c] = st]
                   /\ Log(c, "Lstat", "", TRUE)
                   /\ IF StatMismatch(c, st)
                      THEN Fail(c, SizeError, FALSE)
                      ELSE /\ pc' = [pc EXCEPT ![c] = AfterMirror(c, 1)]
                           /\ UNCHANGED <<err, fault>>
          ELSE /\ Log(c, "Lstat", "", FALSE)
               /\ Fail(c, "Lstat", FALSE)
               /\ UNCHANGED stat
       \/ /\ Log(c, "Lstat", "", FALSE)
          /\ Fail(c, "Lstat", TRUE)
          /\ UNCHANGED stat
    /\ UNCHANGED <<boot, index, hubs, files, dirs, args, source, tempName, hash, written,
                   partIdx, blobGot, success>>

\* The partition the mirror loop is at.
Partition(c) == mirrorPartitions[c][partIdx[c]]

\* os.MkdirAll(partitionDir, 0700) of the mirror loop.
MirrorMkdirAll(c) ==
    /\ pc[c] = "mirrormkdir"
    /\ \/ /\ dirs' = dirs \cup {BlobPartitionDirectoryName(Partition(c), blobRef[c])}
          /\ Log(c, "MirrorMkdirAll", Partition(c), TRUE)
          /\ pc' = [pc EXCEPT ![c] = "mirrorlink"]
          /\ UNCHANGED <<err, fault>>
       \/ /\ Log(c, "MirrorMkdirAll", Partition(c), FALSE)
          /\ Fail(c, "MirrorMkdirAll", TRUE)
          /\ UNCHANGED dirs
    /\ UNCHANGED <<boot, index, hubs, files, args, source, tempName, hash, written, stat,
                   partIdx, blobGot, success>>

\* A faulty variant of LinkTo: the blob is copied into a file of its own.
LinkTo_Copy(fs, from, to) ==
    WithFile(fs, to, [ino |-> 0, data |-> fs[from].data, regular |-> TRUE])

\* The file system after a hard link: the new name is one more entry for the
\* inode the old name holds; no data is copied.
LinkTo(fs, from, to) == WithFile(fs, to, fs[from])

\* os.Link(fileName, partitionFileName): fails if the source is missing or
\* the target exists (EEXIST); otherwise the target names the same inode.
Link(c) ==
    /\ pc[c] = "mirrorlink"
    /\ LET from == BlobFileName(blobRef[c])
           to == PartitionBlobFileName(Partition(c), blobRef[c])
       IN  \/ IF Exists(from) /\ ~Exists(to)
              THEN /\ files' = LinkTo(files, from, to)
                   /\ Log(c, "Link", Partition(c), TRUE)
                   /\ partIdx' = [partIdx EXCEPT ![c] = @ + 1]
                   /\ pc' = [pc EXCEPT ![c] = AfterMirror(c, partIdx[c] + 1)]
                   /\ UNCHANGED <<err, fault>>
              ELSE /\ Log(c, "Link", Partition(c), FALSE)
                   /\ Fail(c, IF Exists(from) THEN "EEXIST" ELSE "ENOENT", FALSE)
                   /\ UNCHANGED <<files, partIdx>>
           \/ /\ Log(c, "Link", Partition(c), FALSE)
              /\ Fail(c, "Link", TRUE)
              /\ UNCHANGED <<files, partIdx>>
    /\ UNCHANGED <<boot, index, hubs, dirs, args, source, tempName, hash, written, stat, blobGot,
                   success>>

\* A faulty variant of HubAt: every notification goes to the default hub.
HubAt_DefaultOnly(c, i) == DefaultPartition

\* A faulty variant of HubAt: the default partition's hub is looked up under a
\* name no observer subscribes to.
HubAt_SkipsDefault(c, i) == IF i = 0 THEN "" ELSE mirrorPartitions[c][i]

\* A faulty variant of HubAt: the mirror partitions' hubs are told first, the
\* default hub last.
HubAt_DefaultLast(c, i) ==
    IF i = Len(mirrorPartitions[c]) THEN DefaultPartition ELSE mirrorPartitions[c][i + 1]

\* The hub the notify loop is at: the default partition's first, then the
\* mirror partitions' in list order.
HubAt(c, i) == IF i = 0 THEN DefaultPartition ELSE mirrorPartitions[c][i]

\* The subscriber is registered on the hub and its buffer has room.
Accepts(s, p) == hubOf[s] = p /\ Len(inbox[s]) < QueueCap

\* hub.NotifyBlobReceived(blobRef): every subscriber registered on the hub
\* is given the event; for a subscriber whose buffer is full the event is
\* dropped.  The caller never waits.  (An event is the address and, for the
\* claims, the call that notified.)
NotifyBlobReceived(p, event) ==
    [s \in Subscribers |->
        IF Accepts(s, p) THEN Append(inbox[s], event) ELSE inbox[s]]

\* Lines 99-117: the result is set and the success flag raised, then
\* NotifyBlobReceived is called on the default hub and on each mirror
\* partition's hub.  (The image viewer of lines 102-110 is off by default
\* and touches no state.)
Notify(c) ==
    /\ pc[c] = "notify"
    /\ LET first == ~success[c]
           i == IF first THEN 0 ELSE partIdx[c]
       IN  /\ blobGot' = [blobGot EXCEPT ![c] =
                             IF first THEN <<blobRef[c], stat[c].size>> ELSE @]
           /\ success' = [success EXCEPT ![c] = TRUE]
           /\ Log(c, "Notify", HubAt(c, i), TRUE)
           /\ inbox' = NotifyBlobReceived(HubAt(c, i), <<blobRef[c], c>>)
           /\ partIdx' = [partIdx EXCEPT ![c] = i + 1]
           /\ pc' = [pc EXCEPT ![c] =
                        IF i + 1 <= Len(mirrorPartitions[c]) THEN "notify" ELSE "deferred"]
    /\ UNCHANGED <<files, dirs, args, source, tempName, hash, written, stat,
                   err, fault, hubOf, index, boot>>

\* A faulty variant of Cleanup: a failed call undoes its commit and its mirror links.
Cleanup_RollsBack(c) ==
    IF ~success[c]
    THEN [q \in {r \in DOMAIN files : r # TempPath(c) /\ files[r].ino # c} |-> files[q]]
    ELSE files

\* A faulty variant of Cleanup: the deferred function removes fileName.
Cleanup_RemovesFileName(c) ==
    IF ~success[c] THEN WithoutFile(files, BlobFileName(blobRef[c])) ELSE files

\* A faulty variant of Cleanup: the temporary file is never removed.
Cleanup_Never(c) == files

\* What the deferred function of lines 48-53 does to the file system.
Cleanup(c) ==
    IF ~success[c] THEN WithoutFile(files, TempPath(c)) ELSE files

\* The function returns: the deferred cleanup runs, then the caller has the
\* results.
Deferred(c) ==
    /\ pc[c] = "deferred"
    /\ files' = Cleanup(c)
    /\ pc' = [pc EXCEPT ![c] = "done"]
    /\ UNCHANGED <<boot, index, hubs, dirs, args, source, tempName, hash, written, stat, partIdx,
                   err, blobGot, success, ops, fault>>

Next ==
    \E c \in Calls :
       \/ Call(c)
       \/ MkdirAll(c)
       \/ TempFile(c)
       \/ Copy(c)
       \/ Sync(c)
       \/ Close(c)
       \/ Rename(c)
       \/ Lstat(c)
       \/ MirrorMkdirAll(c)
       \/ Link(c)
       \/ Notify(c)
       \/ Deferred(c)

Spec == Init /\ [][Next]_vars

\* --------------------------------------------------- outside interference
\* What another process may put in the place of a committed file: the file
\* truncated, or something that is not a regular file.
Tampered == {[ino |-> 0, data |-> <<>>, regular |-> r] : r \in BOOLEAN}

\* Another process with access to the storage root replaces the entry at a
\* canonical path, between a receive's rename and its Lstat.
Interfere(ref) ==
    /\ Exists(BlobFileName(ref))
    /\ files[BlobFileName(ref)].ino # 0
    /\ \E c \in Calls : pc[c] = "lstat" /\ blobRef[c] = ref
    /\ \E f \in Tampered : files' = WithFile(files, BlobFileName(ref), f)
    /\ UNCHANGED <<boot, index, hubs, dirs, pc, args, source, tempName, hash, written,
                   stat, partIdx, err, blobGot, success, ops, fault>>

\* The receives on a storage root that other processes write to as well.
InterferedNext ==
    \/ Next
    \/ \E ref \in BlobRefs : Interfere(ref)

InterferedSpec == Init /\ [][InterferedNext]_vars

\* ------------------------------------------------------- the hubs' observers
\* Everything ReceiveBlob itself reads or writes.
receives == <<files, dirs, pc, args, source, tempName, hash, written, stat,
              partIdx, err, blobGot, success, ops, fault>>

\* hub.subscribe(): a new observer registers on the hub of partition p.
\* Observers subscribe before the first call is made, so that an observer
\* that is registered has been since before every call started.  (They are
\* numbered in the order they subscribe.)
Subscribe(s, p) ==
    /\ hubOf[s] = "new"
    /\ \A c \in Calls : pc[c] = "idle"
    /\ s = "s2" => hubOf["s1"] # "new"
    /\ hubOf' = [hubOf EXCEPT ![s] = p]
    /\ UNCHANGED <<boot, receives, inbox, index>>

\* hub.unsubscribe(handle): no event is delivered to the handle afterwards;
\* the handle is spent, and what was buffered for it is dropped.
Unsubscribe(s) ==
    /\ hubOf[s] \in Hubs
    /\ hubOf' = [hubOf EXCEPT ![s] = "off"]
    /\ inbox' = [inbox EXCEPT ![s] = <<>>]
    /\ UNCHANGED <<boot, receives, index>>

\* The observer consumes the next event of its handle.  Nothing obliges it
\* to: an observer may be slow or never take anything.
Take(s) ==
    /\ hubOf[s] \in Hubs
    /\ inbox[s] # <<>>
    /\ inbox' = [inbox EXCEPT ![s] = Tail(@)]
    /\ UNCHANGED <<boot, receives, hubOf, index>>

\* The file system fails no step and every caller claims the address its
\* stream hashes to.
Quiet ==
    \A c \in Calls : ~fault[c] /\ (pc[c] # "idle" => HashOf(sent[c]) = blobRef[c])

\* No other call is between its first and its last file-system step.
Serial(c) ==
    \A d \in Calls \ {c} : pc[d] \in {"idle", "notify", "deferred", "done"}

\* A file-system step of a receive of HubSpec: the file system fails nothing and
\* the file-system phases of the calls do not overlap (Spec explores their
\* overlap; the hubs are touched by the notifications only, which overlap
\* freely here).
FileStep(c) == Serial(c) /\ Quiet'

\* The receives of a working file system, with observers coming and going.
HubNext ==
    \/ \E c \in Calls :
          \/ Call(c) /\ FileStep(c)
          \/ MkdirAll(c) /\ FileStep(c)
          \/ TempFile(c) /\ FileStep(c)
          \/ Copy(c) /\ FileStep(c)
          \/ Sync(c) /\ FileStep(c)
          \/ Close(c) /\ FileStep(c)
          \/ Rename(c) /\ FileStep(c)
          \/ Lstat(c) /\ FileStep(c)
          \/ MirrorMkdirAll(c) /\ FileStep(c)
          \/ Link(c) /\ FileStep(c)
          \/ Notify(c)
          \/ Deferred(c)
    \/ \E s \in Subscribers :
          \/ \E p \in Hubs : Subscribe(s, p)
          \/ Unsubscribe(s)
          \/ Take(s)

HubSpec == Init /\ [][HubNext]_vars

\* A running call is scheduled: its notifications and its return are not
\* postponed for ever.  Observers are under no such obligation.
HubFairSpec ==
    HubSpec /\ \A c \in Calls : WF_vars(Notify(c)) /\ WF_vars(Deferred(c))

\* ------------------------------------------------- the index's batches
\* mutation{key, value, delete} (index.go lines 41-45)
Mutation(k, v, del) == [key |-> k, value |-> v, delete |-> del]

\* A faulty variant of Staged: a mutation replaces an earlier one of the same key.
Staged_Coalesced(list, mut) ==
    Append(SelectSeq(list, LAMBDA x : x.key # mut.key), mut)

\* append(b.m, mutation{...})
Staged(list, mut) == Append(list, mut)

\* A faulty variant of BackendAfterStaging: a staged mutation is written through.
BackendAfterStaging_WriteThrough(mut) ==
    [store EXCEPT ![mut.key] = IF mut.delete THEN Absent ELSE mut.value]

\* What batch.Set and batch.Delete do to the backend: nothing; a batch holds
\* no reference to one.
BackendAfterStaging(mut) == store

\* The staging calls do not look at the handle: a batch can be staged on
\* from BeginBatch onwards, also after it was committed.
Begun(b) == handle[b] # "none" /\ Len(staged[b]) < MaxOps

\* BeginBatch(): a new, empty batch.  (Batches are numbered in the order
\* they are begun.)
BeginBatch(b) ==
    /\ handle[b] = "none"
    /\ \A a \in Batches : a < b => handle[a] # "none"
    /\ handle' = [handle EXCEPT ![b] = "open"]
    /\ m' = [m EXCEPT ![b] = <<>>]
    /\ UNCHANGED <<boot, receives, hubs, store, staged>>

\* func (b *batch) Set(key, value string)
BatchSet(b, k, v) ==
    /\ Begun(b)
    /\ m' = [m EXCEPT ![b] = Staged(@, Mutation(k, v, FALSE))]
    /\ store' = BackendAfterStaging(Mutation(k, v, FALSE))
    /\ staged' = [staged EXCEPT ![b] = Append(@, <<"Set", k, v>>)]
    /\ UNCHANGED <<boot, receives, hubs, handle>>

\* func (b *batch) Delete(key string): value is left the empty string
BatchDelete(b, k) ==
    /\ Begun(b)
    /\ m' = [m EXCEPT ![b] = Staged(@, Mutation(k, "", TRUE))]
    /\ store' = BackendAfterStaging(Mutation(k, "", TRUE))
    /\ staged' = [staged EXCEPT ![b] = Append(@, <<"Delete", k>>)]
    /\ UNCHANGED <<boot, receives, hubs, handle>>

\* The backend after the mutations of a list are applied in order.
RECURSIVE Applied(_, _)
Applied(kv, list) ==
    IF list = <<>> THEN kv
    ELSE Applied([kv EXCEPT ![Head(list).key] =
                     IF Head(list).delete THEN Absent ELSE Head(list).value],
                 Tail(list))

\* CommitBatch(b): the staged mutations become visible as one unit, and the
\* handle is spent.
CommitBatch(b) ==
    /\ handle[b] = "open"
    /\ store' = Applied(store, m[b])
    /\ handle' = [handle EXCEPT ![b] = "spent"]
    /\ UNCHANGED <<boot, receives, hubs, m, staged>>

\* An index backend and the batches begun on it.
IndexNext ==
    \E b \in Batches :
       \/ BeginBatch(b)
       \/ \E k \in Keys, v \in Values : BatchSet(b, k, v)
       \/ \E k \in Keys : BatchDelete(b, k)
       \/ CommitBatch(b)

IndexSpec == Init /\ [][IndexNext]_vars

\* ------------------------------------------------------------ the claims
Done(c) == pc[c] = "done"

\* The call claims the address its stream hashes to.
Honest(c) == HashOf(sent[c]) = blobRef[c]

\* The canonical path of the call's address.
FileName(c) == BlobFileName(blobRef[c])

\* The files the call created that are still linked somewhere.
LeftBy(c) == {q \in DOMAIN files : files[q].ino = c}

\* No other call was ever made for the same address.
OnlyCallFor(c) ==
    \A d \in Calls \ {c} : pc[d] = "idle" \/ blobRef[d] # blobRef[c]

\* The entries of the call's log for operation op.
OpsOf(c, op) == SelectSeq(ops[c], LAMBDA e : e[1] = op)

\* C1: a ReceiveBlob(A, S, []) with A = hash(S), none of whose steps the
\* file system fails, returns no error and the sized address (A, len(S)),
\* the size being the one Lstat reported, and from then on the canonical
\* path of A holds exactly S.
C1_ReceiveStoresBlob ==
    \A c \in Calls :
       (Done(c) /\ Honest(c) /\ mirrorPartitions[c] = <<>> /\ ~fault[c]) =>
          /\ err[c] = NoErr
          /\ blobGot[c] = <<blobRef[c], Len(sent[c])>>
          /\ blobGot[c][2] = stat[c].size
          /\ Exists(FileName(c))
          /\ files[FileName(c)].data = sent[c]

C1_Witness ==
    \E c \in Calls :
       /\ Done(c) /\ Honest(c) /\ mirrorPartitions[c] = <<>> /\ ~fault[c]
       /\ sent[c] # <<>>
       /\ blobGot[c] = <<blobRef[c], Len(sent[c])>>

\* C2: a ReceiveBlob whose stream does not hash to the claimed address A,
\* and none of whose steps the file system fails, returns CorruptBlobError
\* and a nil result; it leaves no file of its own anywhere (not under its
\* temporary name, not under the canonical name, not in a partition), has
\* linked nothing and notified nobody; and if no other call stores A, neither
\* the temporary nor the canonical path exists.
C2_CorruptBlobLeavesNothing ==
    \A c \in Calls :
       (Done(c) /\ ~Honest(c) /\ ~fault[c]) =>
          /\ err[c] = CorruptBlobError
          /\ blobGot[c] = <<>>
          /\ LeftBy(c) = {}
          /\ OpsOf(c, "Link") = <<>>
          /\ OpsOf(c, "Notify") = <<>>
          /\ OnlyCallFor(c) =>
                /\ ~Exists(FileName(c))
                /\ ~Exists(TempPath(c))

C2_Witness ==
    \E c \in Calls :
       /\ Done(c) /\ ~Honest(c) /\ ~fault[c]
       /\ written[c] > 0
       /\ err[c] = CorruptBlobError
       /\ tempName[c] # 0

\* The call has got as far as calling os.Rename.
RenameTried(c) == OpsOf(c, "Rename") # <<>>

\* The call's os.Rename succeeded: the call committed.
Renamed(c) == <<"Rename", "", TRUE>> \in {ops[c][i] : i \in DOMAIN ops[c]}

\* C3: when a ReceiveBlob returns an error from a step before the rename
\* (directory or temp-file creation, a read or write error while streaming,
\* sync, close, digest mismatch), then as it returns no file exists under
\* the temporary name it created, and no file of this call exists under the
\* canonical name or anywhere else.
C3_FailureBeforeRenameCleansUp ==
    [][\A c \in Calls :
          (pc[c] # "done" /\ pc'[c] = "done" /\ err'[c] # NoErr /\ ~RenameTried(c)') =>
             /\ tempName'[c] # 0 => ~Exists(TempPath(c))'
             /\ LeftBy(c)' = {}]_vars

C3_Witness ==
    \E c \in Calls :
       /\ Done(c) /\ err[c] = "Sync" /\ written[c] > 0
       /\ ~Exists(TempPath(c))
       /\ \E d \in Calls \ {c} : pc[d] = "lstat" /\ blobRef[d] = blobRef[c]

\* C4: in every reachable state a file under a canonical name hashes to the
\* address in that name and is complete: it is the whole stream of the call
\* that wrote it, and that call has closed it.
C4_CanonicalAlwaysComplete ==
    \A ref \in BlobRefs :
       Exists(BlobFileName(ref)) =>
          LET f == files[BlobFileName(ref)]
          IN  /\ HashOf(f.data) = ref
              /\ f.data = sent[f.ino]
              /\ pc[f.ino] \notin {"idle", "mkdir", "tempfile", "copy", "sync", "close"}

C4_Witness ==
    \E c, d \in Calls :
       /\ c # d /\ blobRef[c] = blobRef[d]
       /\ Exists(FileName(c)) /\ files[FileName(c)].ino = c
       /\ sent[c] # <<>>
       /\ pc[d] = "copy" /\ written[d] = 0 /\ Exists(TempPath(d))

\* C5: two ReceiveBlob calls with the same address A and the same stream S
\* (A = hash(S), no mirror partitions, no step failed by the file system),
\* however their steps interleave, both return no error and equal sized
\* addresses; once both have returned the canonical path of A holds S and
\* neither call's temporary file is left.
C5_ConcurrentSameBlob ==
    \A c, d \in Calls :
       (/\ c # d /\ Done(c) /\ Done(d)
        /\ blobRef[c] = blobRef[d] /\ sent[c] = sent[d] /\ Honest(c)
        /\ mirrorPartitions[c] = <<>> /\ mirrorPartitions[d] = <<>>
        /\ ~fault[c] /\ ~fault[d]) =>
          /\ err[c] = NoErr /\ err[d] = NoErr
          /\ blobGot[c] # <<>> /\ blobGot[c] = blobGot[d]
          /\ Exists(FileName(c)) /\ files[FileName(c)].data = sent[c]
          /\ \A n \in TempNames :
                Exists(TempFileName(blobRef[c], n)) =>
                   files[TempFileName(blobRef[c], n)].ino \notin {c, d}

\* Both calls had committed before either verified its commit: the first
\* call's Lstat saw the second call's file.
C5_Witness ==
    \E c, d \in Calls :
       /\ c # d /\ Done(c) /\ Done(d)
       /\ blobRef[c] = blobRef[d] /\ sent[c] = sent[d] /\ Honest(c)
       /\ sent[c] # <<>>
       /\ mirrorPartitions[c] = <<>> /\ mirrorPartitions[d] = <<>>
       /\ err[c] = NoErr /\ err[d] = NoErr
       /\ stat[c].ino = d /\ stat[d].ino = d

\* The list names no partition twice.
NoDuplicates(parts) == \A i, j \in DOMAIN parts : parts[i] = parts[j] => i = j

\* C6: mirroring is idempotent: a ReceiveBlob(A, S, partitions) with
\* A = hash(S) that lists each partition once, and none of whose steps the
\* file system fails, returns no error, also when the link target of a listed
\* partition is already there (left by an earlier or a concurrent receive of
\* the same blob): a retried receive succeeds.
C6_MirrorIdempotent ==
    \A c \in Calls :
       (Done(c) /\ Honest(c) /\ ~fault[c] /\ NoDuplicates(mirrorPartitions[c])) =>
          err[c] = NoErr

\* The mirror partitions the call has linked, in the order it linked them.
LinkedBy(c) ==
    LET links == SelectSeq(ops[c], LAMBDA e : e[1] = "Link" /\ e[3])
    IN  [i \in 1..Len(links) |-> links[i][2]]

\* What the mirror loop logs when it fails at partition i with error e.
RECURSIVE MirrorLogUpTo(_, _, _)
MirrorLogUpTo(parts, i, e) ==
    IF i = 0 THEN <<>>
    ELSE LET before == SubSeq(parts, 1, i - 1)
             okay == [j \in 1..(2 * (i - 1)) |->
                        <<IF j % 2 = 1 THEN "MirrorMkdirAll" ELSE "Link",
                          before[(j + 1) \div 2], TRUE>>]
         IN  IF e = "MirrorMkdirAll"
             THEN okay \o <<(<<"MirrorMkdirAll", parts[i], FALSE>>)>>
             ELSE okay \o <<(<<"MirrorMkdirAll", parts[i], TRUE>>),
                            (<<"Link", parts[i], FALSE>>)>>

MirrorErrors == {"MirrorMkdirAll", "Link", "EEXIST", "ENOENT"}

\* C7: when directory creation or linking fails for the i-th listed
\* partition, ReceiveBlob returns that error and a nil result; up to then it
\* has made the directory and the link of partitions 1..i-1, in list order,
\* and nothing for any partition after i; the failing call is its last (no
\* notification follows); the links of partitions 1..i-1 and the canonical
\* file are still there.
C7_MirrorFailsFast ==
    \A c \in Calls :
       (Done(c) /\ err[c] \in MirrorErrors) =>
          LET parts == mirrorPartitions[c]
              i == partIdx[c]
              mirrorLog == SelectSeq(ops[c],
                              LAMBDA e : e[1] \in {"MirrorMkdirAll", "Link"})
          IN  /\ i \in 1..Len(parts)
              /\ blobGot[c] = <<>>
              /\ mirrorLog = MirrorLogUpTo(parts, i, err[c])
              /\ ops[c][Len(ops[c])] = mirrorLog[Len(mirrorLog)]
              /\ LinkedBy(c) = SubSeq(parts, 1, i - 1)
              /\ \A j \in 1..(i - 1) :
                    Exists(PartitionBlobFileName(parts[j], blobRef[c]))
              /\ Exists(FileName(c))

\* partitions [p1, p2]: p1 is linked, p2's directory cannot be made.
C7_Witness ==
    \E c \in Calls :
       /\ Done(c) /\ err[c] = "MirrorMkdirAll"
       /\ Len(mirrorPartitions[c]) = 2 /\ partIdx[c] = 2
       /\ mirrorPartitions[c][1] # mirrorPartitions[c][2]
       /\ Exists(PartitionBlobFileName(mirrorPartitions[c][1], blobRef[c]))
       /\ ~Exists(PartitionBlobFileName(mirrorPartitions[c][2], blobRef[c]))
       /\ Exists(FileName(c))

\* The call returns in this step.
Returns(c) == pc[c] # "done" /\ pc'[c] = "done"

\* C8 as claimed: when ReceiveBlob returns success, the canonical file exists
\* and every listed partition's path holds the same inode as the canonical
\* path.
C8_MirrorsShareCanonicalInode ==
    [][\A c \in Calls :
          (Returns(c) /\ err'[c] = NoErr) =>
             /\ Exists(FileName(c))'
             /\ \A i \in 1..Len(mirrorPartitions[c]) :
                   LET q == PartitionBlobFileName(mirrorPartitions[c][i], blobRef[c])
                   IN  /\ Exists(q)'
                       /\ files'[q].ino = files'[FileName(c)].ino]_vars

\* The calls that have committed a file for the address.
Committers(ref) == {d \in Calls : blobRef[d] = ref /\ Renamed(d)}

\* C8 as amended: when ReceiveBlob returns success, the canonical file
\* exists and every listed partition's path holds a hard link (the inode of
\* a committed file of that address, nothing copied) with the same content
\* as the canonical file; it is the canonical file's own inode unless
\* another call has renamed a file over the canonical path since this call
\* committed.
C8_MirrorsLinkCommittedBlob ==
    [][\A c \in Calls :
          (Returns(c) /\ err'[c] = NoErr) =>
             /\ Exists(FileName(c))'
             /\ \A i \in 1..Len(mirrorPartitions[c]) :
                   LET q == PartitionBlobFileName(mirrorPartitions[c][i], blobRef[c])
                   IN  /\ Exists(q)'
                       /\ files'[q].data = files'[FileName(c)].data
                       /\ files'[q].ino \in Committers(blobRef[c])'
                       /\ \/ files'[q].ino = files'[FileName(c)].ino
                          \/ files'[FileName(c)].ino # c]_vars

C8_Witness ==
    \E c \in Calls :
       /\ Done(c) /\ err[c] = NoErr
       /\ Len(mirrorPartitions[c]) = 2 /\ sent[c] # <<>>
       /\ \A i \in 1..2 :
             LET q == PartitionBlobFileName(mirrorPartitions[c][i], blobRef[c])
             IN  Exists(q) /\ files[q].ino = c /\ files[FileName(c)].ino = c

\* The hubs the call has notified, in order.
NotifiedBy(c) ==
    LET notes == OpsOf(c, "Notify")
    IN  [i \in 1..Len(notes) |-> notes[i][2]]

IsPrefix(s, t) == Len(s) <= Len(t) /\ s = SubSeq(t, 1, Len(s))

\* C9: a call notifies only once it has committed and linked every listed
\* partition, and after its first notification it does nothing but notify;
\* the hubs are notified in the order default partition, then the listed
\* partitions in list order, each once; a call that has returned no error
\* has notified them all, a call that has an error has notified none.
C9_NotifyAfterMirrorInOrder ==
    \A c \in Calls :
       LET all == <<DefaultPartition>> \o mirrorPartitions[c]
       IN  /\ IsPrefix(NotifiedBy(c), all)
           /\ \A i, j \in DOMAIN ops[c] :
                 (i < j /\ ops[c][i][1] = "Notify") => ops[c][j][1] = "Notify"
           /\ NotifiedBy(c) # <<>> =>
                 /\ Renamed(c)
                 /\ LinkedBy(c) = mirrorPartitions[c]
                 /\ err[c] = NoErr
           /\ (Done(c) /\ err[c] = NoErr) => NotifiedBy(c) = all
           /\ err[c] # NoErr => NotifiedBy(c) = <<>>

C9_Witness ==
    \E c \in Calls :
       /\ Done(c) /\ err[c] = NoErr
       /\ Len(mirrorPartitions[c]) = 2
       /\ mirrorPartitions[c][1] # mirrorPartitions[c][2]
       /\ NotifiedBy(c) = <<DefaultPartition>> \o mirrorPartitions[c]

\* What a path holds: <<>> if nothing.
Entry(fs, q) == IF q \in DOMAIN fs THEN <<fs[q]>> ELSE <<>>

\* The step is one of call c's.
StepOf(c) == pc'[c] # pc[c] \/ ops'[c] # ops[c]

\* C10: a call that has tried its rename changes nothing under any canonical
\* name afterwards, whatever it then does (a failed rename, Lstat, the checks,
\* the mirror loop, the deferred cleanup); and a call that returns an error
\* after its rename succeeded leaves the canonical file in place, holding
\* the whole stream it committed.
C10_CommitNeverRolledBack ==
    /\ [][\A c \in Calls :
             (StepOf(c) /\ pc[c] \in {"rename", "lstat", "mirrormkdir", "mirrorlink",
                                      "notify", "deferred"}
                        /\ ~(pc[c] = "rename" /\ pc'[c] = "lstat")) =>
                \A ref \in BlobRefs :
                   Entry(files', BlobFileName(ref)) = Entry(files, BlobFileName(ref))]_vars
    /\ [](\A c \in Calls :
             (Done(c) /\ err[c] # NoErr /\ Renamed(c)) =>
                /\ Exists(FileName(c))
                /\ files[FileName(c)].data = sent[c])

C10_Witness ==
    \E c \in Calls :
       /\ Done(c) /\ err[c] = "Lstat" /\ Renamed(c)
       /\ Exists(FileName(c)) /\ files[FileName(c)].ino = c
       /\ sent[c] # <<>>

\* A plain commit: the stream hashes to the address, no partition is listed,
\* and the file system fails none of the call's steps.
PlainCommit(c) == Honest(c) /\ mirrorPartitions[c] = <<>> /\ ~fault[c]

\* C11: ReceiveBlob(A, S, []) called twice in sequence (the second call is
\* made after the first has returned) with the same A = hash(S) and S, the
\* file system failing no step: both calls return no error, the second
\* result equals the first (address A, size len(S)), and the canonical file
\* holds S once the first call has returned and once the second has.
C11_CommitIdempotent ==
    /\ \A c \in Calls :
          (Done(c) /\ PlainCommit(c)) =>
             Exists(FileName(c)) /\ files[FileName(c)].data = sent[c]
    /\ \A c, d \in Calls :
          (/\ Done(c) /\ Done(d) /\ c \in precededBy[d]
           /\ blobRef[c] = blobRef[d] /\ sent[c] = sent[d]
           /\ PlainCommit(c) /\ PlainCommit(d)) =>
             /\ err[c] = NoErr /\ err[d] = NoErr
             /\ blobGot[c] = <<blobRef[c], Len(sent[c])>>
             /\ blobGot[d] = blobGot[c]

\* The second call ran after the first had returned, and its rename replaced
\* the file the first call had committed.
C11_Witness ==
    \E c, d \in Calls :
       /\ Done(c) /\ Done(d) /\ c \in precededBy[d]
       /\ blobRef[c] = blobRef[d] /\ sent[c] = sent[d] /\ sent[c] # <<>>
       /\ PlainCommit(c) /\ PlainCommit(d)
       /\ stat[c].ino = c /\ stat[d].ino = d
       /\ files[FileName(c)].ino = d
       /\ blobGot[d] = blobGot[c] /\ blobGot[c] # <<>>

\* The event a call's notifications carry.
EventOf(c) == <<blobRef[c], c>>

\* The step raises the call's success flag: it is the call's notification of
\* the default partition's hub.
Succeeds(c) == ~success[c] /\ success'[c]

NotifyHubs(c) == <<DefaultPartition>> \o mirrorPartitions[c]

Stages(b) == staged'[b] # staged[b]

\* C14: a staging call on a batch changes that batch's list of mutations and
\* nothing else: not the backend, not another batch, not a handle; and as
\* long as CommitBatch has been called on no batch the backend is as it was
\* when the batches were begun, however many operations are staged.
C14_StagingLeavesBackend ==
    /\ [][\A b \in Batches :
             Stages(b) =>
                /\ store' = store
                /\ handle' = handle
                /\ m'[b] # m[b]
                /\ \A a \in Batches \ {b} : m'[a] = m[a]]_vars
    /\ []((\A b \in Batches : handle[b] # "spent") => store = InitialStore)

\* Three operations are staged that would change the backend (a Set of a new
\* value, a Delete of the key the backend holds, a Set of a new key), and
\* nothing was committed.
C14_Witness ==
    \E b \in Batches :
       /\ \A a \in Batches : handle[a] # "spent"
       /\ handle[b] = "open" /\ Len(m[b]) = MaxOps
       /\ staged[b] = <<(<<"Set", "k1", "v2">>), (<<"Delete", "k1">>),
                        (<<"Set", "k2", "v1">>)>>
       /\ store = InitialStore

\* The mutation a staging call stands for.
MutationOf(call) ==
    IF call[1] = "Set"
    THEN [key |-> call[2], value |-> call[3], delete |-> FALSE]
    ELSE [key |-> call[2], value |-> "", delete |-> TRUE]

\* C20: a batch records its staging calls as an append-only sequence in
\* call order: each batch.Set(k, v) appends exactly the mutation (k, v, not
\* delete), each batch.Delete(k) exactly the mutation (k, delete), the
\* mutations staged earlier stay as they are, and no other step touches the
\* list; so after n staging calls the batch holds those n mutations in
\* call order.
C20_BatchAppendsInOrder ==
    /\ [][\A b \in Batches :
             IF Stages(b)
             THEN LET call == staged'[b][Len(staged'[b])]
                  IN  /\ Len(m'[b]) = Len(m[b]) + 1
                      /\ SubSeq(m'[b], 1, Len(m[b])) = m[b]
                      /\ m'[b][Len(m'[b])] = MutationOf(call)
             ELSE handle[b] # "none" => m'[b] = m[b]]_vars
    /\ [](\A b \in Batches :
             /\ Len(m[b]) = Len(staged[b])
             /\ \A i \in DOMAIN m[b] : m[b][i] = MutationOf(staged[b][i]))

\* Set, Delete and Set again of one key: all three are kept, in call order.
C20_Witness ==
    \E b \in Batches :
       /\ staged[b] = <<(<<"Set", "k1", "v1">>), (<<"Delete", "k1">>),
                        (<<"Set", "k1", "v2">>)>>
       /\ m[b] = <<[key |-> "k1", value |-> "v1", delete |-> FALSE],
                   [key |-> "k1", value |-> "", delete |-> TRUE],
                   [key |-> "k1", value |-> "v2", delete |-> FALSE]>>

\* The calls a ReceiveBlob with these arguments issues when nothing fails,
\* in order, as <<operation, argument>>.
Pipeline(c) ==
    LET parts == mirrorPartitions[c]
    IN  <<(<<"MkdirAll", "">>), (<<"TempFile", "">>)>>
        \o [i \in 1..Len(sent[c]) |-> <<"Write", "">>]
        \o <<(<<"EOF", "">>), (<<"Sync", "">>), (<<"Close", "">>),
             (<<"Rename", "">>), (<<"Lstat", "">>)>>
        \o [j \in 1..(2 * Len(parts)) |->
               <<IF j % 2 = 1 THEN "MirrorMkdirAll" ELSE "Link", parts[(j + 1) \div 2]>>]
        \o [k \in 1..(Len(parts) + 1) |-> <<"Notify", NotifyHubs(c)[k]>>]

\* The errors a failing operation returns.
ErrorsOf(op) == IF op = "Link" THEN {"Link", "EEXIST", "ENOENT"} ELSE {op}

\* The call has an error and is on its way out.
Failed(c) == err[c] # NoErr

\* C15: the calls a ReceiveBlob issues are, in order, those of the pipeline
\* (nothing is skipped, repeated or retried); a call that fails is the last
\* one issued, its error is the call's error, and the result is nil; the two
\* local checks (digest, size) fail the call right after Close and Lstat;
\* once a call has an error it keeps it and issues nothing more.
C15_FirstFailureReturned ==
    /\ [](\A c \in Calls :
             LET log == ops[c]
                 plan == Pipeline(c)
             IN  /\ Len(log) <= Len(plan)
                 /\ \A i \in DOMAIN log :
                       /\ IF log[i][1] = "Read"
                          THEN ~log[i][3] /\ plan[i][1] \in {"Write", "EOF"}
                          ELSE <<log[i][1], log[i][2]>> = plan[i]
                       /\ ~log[i][3] =>
                             /\ i = Len(log)
                             /\ err[c] \in ErrorsOf(log[i][1])
                 /\ Failed(c) =>
                       /\ pc[c] \in {"deferred", "done"}
                       /\ blobGot[c] = <<>>
                       /\ log # <<>>
                       /\ \/ ~log[Len(log)][3]
                          \/ err[c] = CorruptBlobError /\ log[Len(log)][1] = "Close"
                          \/ err[c] = SizeError /\ log[Len(log)][1] = "Lstat")
    /\ [][\A c \in Calls :
             Failed(c) => err'[c] = err[c] /\ ops'[c] = ops[c]]_vars

\* Sync fails after the stream was written: the call returns that error and
\* has neither closed nor renamed anything.
C15_Witness ==
    \E c \in Calls :
       /\ Done(c) /\ err[c] = "Sync" /\ written[c] > 0
       /\ ops[c][Len(ops[c])] = <<"Sync", "", FALSE>>
       /\ OpsOf(c, "Close") = <<>> /\ ~RenameTried(c)
       /\ mirrorPartitions[c] # <<>>

\* C16: os.Rename is called only after the whole stream was written, EOF
\* was reached, the file synced, then closed (each without error, in that
\* order) and the digest found to match; until its rename has succeeded a
\* call has no file anywhere but under its temporary name; and a canonical
\* entry changes in no step but a successful rename to it.
C16_RenameIsCommitPoint ==
    /\ [](\A c \in Calls :
             /\ RenameTried(c) =>
                   LET n == Len(sent[c])
                   IN  /\ Len(ops[c]) >= n + 6
                       /\ \A i \in 1..(n + 5) :
                             ops[c][i] = <<Pipeline(c)[i][1], "", TRUE>>
                       /\ ops[c][n + 6][1] = "Rename"
                       /\ written[c] = n /\ source[c] = <<>>
                       /\ hash[c] = HashOf(sent[c])
                       /\ HashMatches(blobRef[c], hash[c])
             /\ ~Renamed(c) =>
                   \A q \in DOMAIN files : files[q].ino = c => q = TempPath(c))
    /\ [][\A ref \in BlobRefs :
             Entry(files', BlobFileName(ref)) # Entry(files, BlobFileName(ref)) =>
                \E c \in Calls :
                   /\ blobRef[c] = ref
                   /\ pc[c] = "rename" /\ pc'[c] = "lstat"
                   /\ ops'[c] = Append(ops[c], <<"Rename", "", TRUE>>)
                   /\ files'[BlobFileName(ref)] = files[TempPath(c)]]_vars

\* The call has just renamed: its file is the canonical one.
C16_Witness ==
    \E c \in Calls :
       /\ pc[c] = "lstat" /\ Renamed(c) /\ sent[c] # <<>>
       /\ Exists(FileName(c)) /\ files[FileName(c)].ino = c
       /\ ~Exists(TempPath(c))

\* The last call the ReceiveBlob issued is op.
LastOp(c, op) == ops[c] # <<>> /\ ops[c][Len(ops[c])][1] = op

\* C17: the step after the rename is the Lstat of the canonical path; the
\* call goes on (to mirroring, or past it with nothing to mirror) only if
\* the Lstat succeeds and finds a regular file of the size written; if the
\* Lstat fails, the entry is not a regular file or its size differs, the
\* call fails: it makes no mirror directory and no link, notifies nobody,
\* returns a nil result, and neither the Lstat step nor the cleanup touches
\* the file system.
C17_RestatGuardsMirroring ==
    /\ [][\A c \in Calls :
             /\ (pc[c] = "lstat" /\ StepOf(c)) =>
                   LET q == FileName(c)
                       good == /\ Exists(q) /\ files[q].regular
                               /\ Len(files[q].data) = written[c]
                   IN  /\ pc'[c] \in {"mirrormkdir", "notify", "deferred"}
                       /\ pc'[c] # "deferred" => good /\ err'[c] = NoErr
                       /\ ~good => pc'[c] = "deferred" /\ err'[c] # NoErr
                       /\ files' = files
             /\ (pc[c] = "deferred" /\ StepOf(c) /\ LastOp(c, "Lstat")) =>
                   files' = files]_vars
    /\ [](\A c \in Calls :
             (LastOp(c, "Lstat") /\ Failed(c)) =>
                /\ Renamed(c)
                /\ blobGot[c] = <<>>
                /\ OpsOf(c, "MirrorMkdirAll") = <<>> /\ LinkedBy(c) = <<>>
                /\ NotifiedBy(c) = <<>>)

\* The committed file was truncated before the re-stat: the call, which
\* lists a partition, fails with the size error; the entry is still there.
C17_Witness ==
    \E c \in Calls :
       /\ Done(c) /\ err[c] = SizeError /\ written[c] > 0
       /\ mirrorPartitions[c] # <<>> /\ LinkedBy(c) = <<>>
       /\ Exists(FileName(c)) /\ files[FileName(c)].regular
       /\ files[FileName(c)].data = <<>>

\* C18: a call that has returned has a result if and only if it has no
\* error; the result and the success flag are set together, and only once
\* the rename has succeeded, the Lstat has succeeded and passed the check,
\* and every listed partition is linked; a call with an error has neither.
C18_ResultIffNoError ==
    \A c \in Calls :
       /\ Done(c) => (blobGot[c] # <<>> <=> err[c] = NoErr)
       /\ success[c] <=> blobGot[c] # <<>>
       /\ Failed(c) => blobGot[c] = <<>> /\ ~success[c]
       /\ success[c] =>
             /\ ~Failed(c)
             /\ Renamed(c)
             /\ OpsOf(c, "Lstat") = <<(<<"Lstat", "", TRUE>>)>>
             /\ ~StatMismatch(c, stat[c])
             /\ LinkedBy(c) = mirrorPartitions[c]
             /\ blobGot[c] = <<blobRef[c], stat[c].size>>

\* A call that committed, linked its first partition and failed at the
\* second: it returns the error and a nil result.
C18_Witness ==
    \E c \in Calls :
       /\ Done(c) /\ err[c] = "Link" /\ Renamed(c)
       /\ Len(LinkedBy(c)) = 1 /\ Len(mirrorPartitions[c]) = 2
       /\ blobGot[c] = <<>> /\ ~success[c]

\* The call is between its first step and its return.
Running(c) == pc[c] \notin {"idle", "done"}

ListenNeeded ==
    "\"listen\" needs to be specified either in the config or on the command line"
LoadFailed == "Could not load server config"
InstallFailed == "Error parsing config"
ListenFailed == "Listen"

\* exitf(pattern): the message goes to stderr and the process exits with 1.
exitf(pattern) ==
    /\ stderr' = pattern
    /\ pcMain' = "exited"

\* config.OptionalString(key, def): the value at key, def when key is absent.
OptionalString(key, def) == IF config[key] = Absent THEN def ELSE config[key]

\* A faulty variant of ListenOf: the config takes priority over the flag.
ListenOf_ConfigFirst(flag, listenConfig) ==
    IF listenConfig = "" THEN flag ELSE listenConfig

\* The listen address: the flag, or the config's value when the flag is blank.
ListenOf(flag, listenConfig) == IF flag = "" THEN listenConfig ELSE flag

\* flag.Parse(): the -listen flag takes the value on the command line.
FlagParse ==
    /\ pcMain = "start"
    /\ \E f \in ListenFlags : listenFlag' = f
    /\ pcMain' = "parsed"
    /\ UNCHANGED <<receives, hubs, index, config, listen, baseURL, stderr, bound>>

\* findConfigFile and serverconfig.Load: the config is read, or the server
\* exits.
Load ==
    /\ pcMain = "parsed"
    /\ \/ /\ \E l \in ListenConfigs, u \in BaseURLConfigs :
                config' = [k \in ConfigKeys |-> IF k = "listen" THEN l ELSE u]
          /\ pcMain' = "loaded"
          /\ UNCHANGED stderr
       \/ /\ exitf(LoadFailed)
          /\ UNCHANGED config
    /\ UNCHANGED <<receives, hubs, index, listenFlag, listen, baseURL, bound>>

\* listenAndBaseURL(config)
listenAndBaseURL ==
    /\ pcMain = "loaded"
    /\ baseURL' = OptionalString("baseURL", "")
    /\ LET listenConfig == OptionalString("listen", "")
       IN  /\ listen' = ListenOf(listenFlag, listenConfig)
           /\ IF listenFlag = "" /\ listenConfig = ""
              THEN exitf(ListenNeeded)
              ELSE pcMain' = "returned" /\ UNCHANGED stderr
    /\ UNCHANGED <<receives, hubs, index, listenFlag, config, bound>>

\* setupTLS and config.InstallHandlers: the handlers are installed, or the
\* server exits.
InstallHandlers ==
    /\ pcMain = "returned"
    /\ \/ pcMain' = "installed" /\ UNCHANGED stderr
       \/ exitf(InstallFailed)
    /\ UNCHANGED <<receives, hubs, index, listenFlag, config, listen, baseURL,
                   bound>>

\* ws.Listen(listen): the server listens on the address, or exits.
Listen ==
    /\ pcMain = "installed"
    /\ \/ /\ bound' = listen
          /\ pcMain' = "listening"
          /\ UNCHANGED stderr
       \/ /\ exitf(ListenFailed)
          /\ UNCHANGED bound
    /\ UNCHANGED <<receives, hubs, index, listenFlag, config, listen, baseURL>>

\* The server's start-up, from the process start to the listening socket.
MainNext ==
    \/ FlagParse
    \/ Load
    \/ listenAndBaseURL
    \/ InstallHandlers
    \/ Listen

MainSpec == Init /\ [][MainNext]_vars

\* listenAndBaseURL has returned to main.
Returned == pcMain \in {"returned", "installed", "listening"}

\* The server exited because no listen address was given.
ExitedForListen == pcMain = "exited" /\ stderr = ListenNeeded

\* C21: when listenAndBaseURL returns, the listen address is the -listen
\* flag if that is non-empty and the config's "listen" value otherwise, and
\* it is not empty; when the flag and the config's value are both empty
\* (or the key is absent) the call does not return: the server exits with
\* the error message, and only then; the address the server listens on is
\* the one returned.
C21_ListenFlagOverConfig ==
    /\ [](Returned =>
            /\ listenFlag # "" => listen = listenFlag
            /\ listenFlag = "" =>
                  config["listen"] \notin {Absent, ""} /\ listen = config["listen"]
            /\ listen # "")
    /\ [](pcMain = "listening" => bound = listen /\ bound # "")
    /\ [](ExitedForListen =>
            listenFlag = "" /\ config["listen"] \in {Absent, ""} /\ bound = "")
    /\ [][pcMain = "loaded" =>
            /\ pcMain' \in {"loaded", "returned", "exited"}
            /\ (listenFlag = "" /\ config["listen"] \in {Absent, ""}) =>
                  pcMain' \in {"loaded", "exited"}
            /\ pcMain' = "exited" => stderr' = ListenNeeded]_vars

\* The flag and the config name different addresses: the server listens on
\* the flag's.
C21_Witness ==
    /\ pcMain = "listening"
    /\ listenFlag # ""
    /\ config["listen"] \notin {Absent, "", listenFlag}
    /\ bound = listenFlag
====
